---- MODULE Spec2Model ----
(***************************************************************************)
(* crustdata-mcp-demo: the dry-run request builder (client.py), the        *)
(* renderer (models.py) and the tool handlers (tools/*.py).                *)
(*                                                                         *)
(* Text is modelled character by character: a Python str is a sequence of  *)
(* one-character strings, so that URL encoding, JSON serialisation and the *)
(* rendered layout are computed, not assumed.  Python objects that are     *)
(* passed by reference (dicts, lists) live in `heap`; a value of the form  *)
(* Ref(n) is a reference to heap[n].                                       *)
(***************************************************************************)
EXTENDS Integers, Sequences, FiniteSets, TLC

\* ------------------------------------------------------------------ bounds

\* Number of invocation slots that may run interleaved.
MaxInv == 2

\* ------------------------------------------------------ program constants

MaxCompanyDomains == 25
MaxLinkedinUrls == 25
MaxBusinessEmails == 25
MaxScreenCount == 1000
MaxPostsLimit == 100
MaxPeopleLimit == 10000
DefaultScreenCount == 100
DefaultPostsLimit == 10
DefaultMaxReactors == 10
DefaultMaxComments == 10

\* constants.py is not part of the sources at hand; the value is the fixed
\* base URL the specification speaks of.
API_BASE_URL == <<"h","t","t","p","s",":","/","/","a","p","i",".","c","r","u","s","t","d","a","t","a",".","c","o","m">>

\* ----------------------------------------------------------- Python values

PNone == [t |-> "none"]
PStr(s) == [t |-> "str", v |-> s]
PInt(n) == [t |-> "int", v |-> n]
PBool(b) == [t |-> "bool", v |-> b]
PList(items) == [t |-> "list", v |-> items]
\* A dict keeps insertion order: a sequence of <<key, value>> pairs.
PDict(items) == [t |-> "dict", v |-> items]
Ref(n) == [t |-> "ref", id |-> n]
\* A heap cell that holds no object.
Free == [t |-> "free"]

\* Python truthiness (bool(v)).
Truthy(v) ==
    CASE v.t = "none" -> FALSE
      [] v.t = "bool" -> v.v
      [] v.t = "int" -> v.v # 0
      [] v.t \in {"str", "list", "dict"} -> Len(v.v) > 0
      [] v.t = "model" -> TRUE

Deref(h, v) == IF v.t = "ref" THEN h[v.id] ELSE v

\* ------------------------------------------------------------ str helpers

NL == "\n"

RECURSIVE CatRange(_, _, _)
\* ss[lo] \o ... \o ss[hi], halving the range so that long texts do not
\* nest the evaluation deeply.
CatRange(ss, lo, hi) ==
    IF lo > hi THEN <<>>
    ELSE IF lo = hi THEN ss[lo]
    ELSE LET mid == (lo + hi) \div 2
         IN CatRange(ss, lo, mid) \o CatRange(ss, mid + 1, hi)

\* Concatenation of a sequence of strings.
Cat(ss) == CatRange(ss, 1, Len(ss))

\* sep.join(ss)
Join(sep, ss) ==
    Cat([i \in 1..(2 * Len(ss) - 1) |-> IF i % 2 = 1 THEN ss[(i + 1) \div 2] ELSE sep])

\* s.split(ch) for a one-character separator: the pieces between the
\* occurrences of ch.
Split(s, ch) ==
    LET pos == {i \in 1..Len(s) : s[i] = ch}
        \* the position of the j-th separator; 0 before the first piece and
        \* Len(s) + 1 after the last
        at(j) == IF j = 0 THEN 0
                 ELSE IF j > Cardinality(pos) THEN Len(s) + 1
                 ELSE CHOOSE p \in pos : Cardinality({q \in pos : q <= p}) = j
    IN [j \in 1..(Cardinality(pos) + 1) |-> SubSeq(s, at(j - 1) + 1, at(j) - 1)]

Spaces(n) == [i \in 1..n |-> " "]

Digit(d) ==
    CASE d = 0 -> "0" [] d = 1 -> "1" [] d = 2 -> "2" [] d = 3 -> "3"
      [] d = 4 -> "4" [] d = 5 -> "5" [] d = 6 -> "6" [] d = 7 -> "7"
      [] d = 8 -> "8" [] d = 9 -> "9"

RECURSIVE NatToStr(_)
NatToStr(n) == IF n < 10 THEN <<Digit(n)>> ELSE NatToStr(n \div 10) \o <<Digit(n % 10)>>

IntToStr(n) == IF n < 0 THEN <<"-">> \o NatToStr(0 - n) ELSE NatToStr(n)

\* str(v) for the values that reach a query string or a header.
StrOf(v) ==
    CASE v.t = "str" -> v.v
      [] v.t = "int" -> IntToStr(v.v)
      [] v.t = "bool" -> IF v.v THEN <<"T","r","u","e">> ELSE <<"F","a","l","s","e">>
      [] v.t = "none" -> <<"N","o","n","e">>

IsSpace(c) == c \in {" ", "\t", "\n", "\r"}

\* s.strip(): what pydantic's str_strip_whitespace applies to a str.
Strip(s) ==
    LET keep == {i \in 1..Len(s) : ~IsSpace(s[i])}
    IN IF keep = {} THEN <<>>
       ELSE SubSeq(s, CHOOSE i \in keep : \A j \in keep : i <= j,
                      CHOOSE i \in keep : \A j \in keep : i >= j)

\* ---------------------------------------------------- urllib.parse.urlencode

Letters ==
    {"a", "b", "c", "d", "e", "f", "g", "h", "i", "j", "k", "l", "m",
     "n", "o", "p", "q", "r", "s", "t", "u", "v", "w", "x", "y", "z",
     "A", "B", "C", "D", "E", "F", "G", "H", "I", "J", "K", "L", "M",
     "N", "O", "P", "Q", "R", "S", "T", "U", "V", "W", "X", "Y", "Z"}

Digits == {"0", "1", "2", "3", "4", "5", "6", "7", "8", "9"}

\* The characters urllib.parse.quote never escapes.
AlwaysSafe == Letters \cup Digits \cup {"_", ".", "-", "~"}

\* quote_plus of one character.  The table lists the ASCII characters the
\* model's inputs use; a character outside it is an error of the model.
QuoteChar(c) ==
    CASE c \in AlwaysSafe -> <<c>>
      [] c = " " -> <<"+">>
      [] c = "/" -> <<"%","2","F">>
      [] c = ":" -> <<"%","3","A">>
      [] c = "," -> <<"%","2","C">>
      [] c = "@" -> <<"%","4","0">>
      [] c = "=" -> <<"%","3","D">>
      [] c = "&" -> <<"%","2","6">>
      [] c = "?" -> <<"%","3","F">>
      [] c = "+" -> <<"%","2","B">>
      [] c = "%" -> <<"%","2","5">>
      [] c = "$" -> <<"%","2","4">>
      [] c = "#" -> <<"%","2","3">>
      [] c = "\"" -> <<"%","2","2">>
      [] c = "\n" -> <<"%","0","A">>

QuotePlus(s) == Cat([i \in 1..Len(s) |-> QuoteChar(s[i])])

\* urlencode(items): key=value pairs joined by "&", both sides quote_plus'ed
\* after str().
urlencode(items) ==
    Join(<<"&">>, [i \in 1..Len(items) |->
                  QuotePlus(items[i][1]) \o <<"=">> \o QuotePlus(StrOf(items[i][2]))])

\* --------------------------------------------------- json.dumps(v, indent=4)

JsonChar(c) ==
    CASE c = "\"" -> <<"\\", "\"">>
      [] c = "\\" -> <<"\\", "\\">>
      [] c = "\n" -> <<"\\", "n">>
      [] c = "\t" -> <<"\\", "t">>
      [] c = "\r" -> <<"\\", "r">>
      [] OTHER -> <<c>>

JsonEscape(s) == Cat([i \in 1..Len(s) |-> JsonChar(s[i])])

JsonStr(s) == <<"\"">> \o JsonEscape(s) \o <<"\"">>

RECURSIVE JsonEncode(_, _)
\* The encoder at nesting depth `level`, four spaces per level.
JsonEncode(v, level) ==
    LET inner == <<NL>> \o Spaces(4 * (level + 1))
        outer == <<NL>> \o Spaces(4 * level)
    IN CASE v.t = "none" -> <<"n","u","l","l">>
         [] v.t = "bool" -> IF v.v THEN <<"t","r","u","e">> ELSE <<"f","a","l","s","e">>
         [] v.t = "int" -> IntToStr(v.v)
         [] v.t = "str" -> JsonStr(v.v)
         [] v.t = "list" ->
              IF v.v = <<>> THEN <<"[","]">>
              ELSE <<"[">> \o inner
                   \o Join(<<",">> \o inner,
                           [i \in 1..Len(v.v) |-> JsonEncode(v.v[i], level + 1)])
                   \o outer \o <<"]">>
         [] v.t = "dict" ->
              IF v.v = <<>> THEN <<"{","}">>
              ELSE <<"{">> \o inner
                   \o Join(<<",">> \o inner,
                           [i \in 1..Len(v.v) |->
                              JsonStr(v.v[i][1]) \o <<":"," ">>
                              \o JsonEncode(v.v[i][2], level + 1)])
                   \o outer \o <<"}">>

JsonDumps(v) == JsonEncode(v, 0)

\* -------------------------------------------------------------------- heap

\* At most three objects per invocation: the params dict and the body the
\* caller builds, and the headers dict build_request creates.  Which unused
\* cell a new object gets is not observable by the program; the model gives
\* the objects of invocation i the cells 3i-2 .. 3i.  Cell 0 stands for
\* module-level storage; the modules keep no mutable object there.
ObjIds == 0..(3 * MaxInv)

EmptyHeap == [n \in ObjIds |-> Free]

\* The cell a newly created object of invocation i gets: one that holds no
\* object.
NewId(h, i) ==
    CHOOSE n \in (3 * i - 2)..(3 * i) :
        /\ h[n] = Free
        /\ \A m \in (3 * i - 2)..(3 * i) : h[m] = Free => n <= m

\* {...} / [...] evaluated: a new object.
NewObject(h, i, v) ==
    LET n == NewId(h, i) IN [heap |-> [h EXCEPT ![n] = v], ref |-> Ref(n)]

\* d[k] = v on a dict's item sequence.
DictSet(items, k, v) ==
    IF \E i \in 1..Len(items) : items[i][1] = k
    THEN [i \in 1..Len(items) |-> IF items[i][1] = k THEN <<k, v>> ELSE items[i]]
    ELSE Append(items, <<k, v>>)

DictHas(items, k) == \E i \in 1..Len(items) : items[i][1] = k

DictGet(items, k) == items[CHOOSE i \in 1..Len(items) : items[i][1] = k][2]

\* ------------------------------------------------------------- client.py

\* The headers literal of build_request, kept in one dict shared by all
\* calls (a module-level dict that every call updates in place).
SharedHeaders(h, i) ==
    IF h[0] = Free
    THEN [heap |-> [h EXCEPT ![0] =
                      PDict(<<<<<<"A","c","c","e","p","t">>, PStr(<<"a","p","p","l","i","c","a","t","i","o","n","/","j","s","o","n">>)>>,
                              <<<<"A","u","t","h","o","r","i","z","a","t","i","o","n">>, PStr(<<"T","o","k","e","n"," ","$","t","o","k","e","n">>)>>>>)],
          ref |-> Ref(0)]
    ELSE [heap |-> h, ref |-> Ref(0)]

\* headers = {"Accept": ..., "Authorization": ...}: a new dict per call.
NewHeaders(h, i) ==
    NewObject(h, i, PDict(<<<<<<"A","c","c","e","p","t">>, PStr(<<"a","p","p","l","i","c","a","t","i","o","n","/","j","s","o","n">>)>>,
                         <<<<"A","u","t","h","o","r","i","z","a","t","i","o","n">>, PStr(<<"T","o","k","e","n"," ","$","t","o","k","e","n">>)>>>>))

\* `if params:` and the comprehension without its `is not None` test.
FilterParamsKeepNone(h, params) ==
    LET p == Deref(h, params) IN IF Truthy(p) THEN p.v ELSE <<>>

\* `if params:` then the comprehension that keeps the non-None values.
FilterParams(h, params) ==
    LET p == Deref(h, params)
    IN IF Truthy(p) THEN SelectSeq(p.v, LAMBDA kv : kv[2].t # "none") ELSE <<>>

BuildUrl(h, path, params) ==
    LET filtered == FilterParams(h, params)
    IN IF filtered # <<>>
       THEN API_BASE_URL \o path \o <<"?">> \o urlencode(filtered)
       ELSE API_BASE_URL \o path

\* Content-Type decided by the body's truthiness instead of `is not None`.
WantsContentTypeTruthy(h, json_body) == Truthy(Deref(h, json_body))

\* `if json_body is not None:`
WantsContentType(h, json_body) == json_body.t # "none"

\* build_request(method, path, params, json_body) called by invocation i on
\* heap h: the heap after the call and the DryRunResult it returns.  The descriptor holds the
\* headers dict and the caller's json_body by reference.
build_request(h, i, method, path, params, json_body) ==
    LET url == BuildUrl(h, path, params)
        hd == NewHeaders(h, i)
        h1 == hd.heap
        h2 == IF WantsContentType(h, json_body)
              THEN [h1 EXCEPT ![hd.ref.id] =
                      PDict(DictSet(h1[hd.ref.id].v, <<"C","o","n","t","e","n","t","-","T","y","p","e">>,
                                    PStr(<<"a","p","p","l","i","c","a","t","i","o","n","/","j","s","o","n">>)))]
              ELSE h1
    IN [heap |-> h2,
        result |-> [method |-> method, url |-> url,
                    headers |-> hd.ref, body |-> json_body]]

\* ------------------------------------------------------------- models.py

\* `if self.body:` replaced by `if self.body is not None:`.
ShowsBodyNotNone(h, r) == r.body.t # "none"

\* `if self.body:`
ShowsBody(h, r) == Truthy(Deref(h, r.body))

HeaderLine(h, r) ==
    LET hs == Deref(h, r.headers).v
    IN Join(<<","," ">>, [i \in 1..Len(hs) |-> hs[i][1] \o <<":"," ">> \o StrOf(hs[i][2])])

BodyLines(h, r) ==
    LET ls == Split(JsonDumps(Deref(h, r.body)), NL)
    IN <<<<" "," ","B","o","d","y",":">>>> \o [i \in 1..Len(ls) |-> <<" "," "," "," ">> \o ls[i]]

\* DryRunResult.format_output
format_output(h, r) ==
    Join(<<NL>>,
         << <<"D","r","y"," ","r","u","n"," ","m","o","d","e"," ","-"," ","n","o"," ","a","c","t","u","a","l"," ","A","P","I"," ","c","a","l","l"," ","w","a","s"," ","m","a","d","e",".">>,
            <<>>,
            <<"R","e","q","u","e","s","t"," ","t","h","a","t"," ","w","o","u","l","d"," ","b","e"," ","s","e","n","t",":">>,
            <<" "," ","M","e","t","h","o","d",":"," "," ">> \o r.method,
            <<" "," ","U","R","L",":"," "," "," "," "," ">> \o r.url,
            <<" "," ","H","e","a","d","e","r","s",":"," ">> \o HeaderLine(h, r) >>
         \o (IF ShowsBody(h, r) THEN BodyLines(h, r) ELSE <<>>))

\* ------------------------------------------------------ pydantic validation

\* A field the caller did not supply.
Absent == [t |-> "absent"]

Default(v, d) == IF v.t = "absent" THEN d ELSE v

\* str_strip_whitespace on a str field / on the items of a List[str] field.
StripStr(v) == IF v.t = "str" THEN PStr(Strip(v.v)) ELSE v

StripList(v) ==
    IF v.t = "list" THEN PList([i \in 1..Len(v.v) |-> StripStr(v.v[i])]) ELSE v

\* Field(..., min_length=lo) on a required list.
RequiredListOk(v, lo) == v.t = "list" /\ lo <= Len(v.v)

\* Field(default=None, max_length=hi) on an Optional list.
OptionalListOk(v, hi) == v.t = "absent" \/ (v.t = "list" /\ Len(v.v) <= hi)

\* Field(ge=lo) / Field(ge=lo, le=hi) on an int that has a default.
IntGeOk(v, lo) == v.t = "absent" \/ (v.t = "int" /\ v.v >= lo)

\* Field(ge=lo, le=hi) with the upper bound left out.
IntRangeOkNoUpper(v, lo, hi) == v.t = "absent" \/ (v.t = "int" /\ lo <= v.v)

IntRangeOk(v, lo, hi) == v.t = "absent" \/ (v.t = "int" /\ lo <= v.v /\ v.v <= hi)

EnrichCompanyInputOk(a) ==
    /\ RequiredListOk(a.company_domains, 1)
    /\ Len(a.company_domains.v) <= MaxCompanyDomains

EnrichCompanyInput(a) ==
    [company_domains |-> StripList(a.company_domains),
     fields |-> StripList(Default(a.fields, PNone)),
     enrich_realtime |-> Default(a.enrich_realtime, PBool(FALSE))]

\* ScreeningCondition(...).model_dump()
ScreeningConditionDump(c) ==
    PDict(<< <<<<"c","o","l","u","m","n">>, c.column>>, <<<<"t","y","p","e">>, c.type>>, <<<<"v","a","l","u","e">>, c.value>>,
             <<<<"a","l","l","o","w","_","n","u","l","l">>, Default(c.allow_null, PBool(FALSE))>> >>)

ScreenCompaniesInputOk(a) ==
    /\ RequiredListOk(a.conditions, 1)
    /\ IntGeOk(a.offset, 0)
    /\ IntRangeOk(a.count, 1, MaxScreenCount)

ScreenCompaniesInput(a) ==
    [op |-> StripStr(Default(a.op, PStr(<<"a","n","d">>))),
     conditions |-> a.conditions,
     offset |-> Default(a.offset, PInt(0)),
     count |-> Default(a.count, PInt(DefaultScreenCount)),
     sorts |-> Default(a.sorts, PNone)]

\* CompanySearchFilter(...).model_dump(exclude_none=True)
CompanySearchFilterDump(f) ==
    PDict(SelectSeq(<< <<<<"f","i","l","t","e","r","_","t","y","p","e">>, f.filter_type>>, <<<<"t","y","p","e">>, f.type>>,
                       <<<<"v","a","l","u","e">>, f.value>>,
                       <<<<"s","u","b","_","f","i","l","t","e","r">>, Default(f.sub_filter, PNone)>> >>,
                    LAMBDA kv : kv[2].t # "none"))

SearchCompaniesInputOk(a) ==
    /\ RequiredListOk(a.filters, 1)
    /\ IntGeOk(a.page, 1)

SearchCompaniesInput(a) ==
    [filters |-> a.filters, page |-> Default(a.page, PInt(1))]

EnrichPersonInputOk(a) ==
    /\ OptionalListOk(a.linkedin_urls, MaxLinkedinUrls)
    /\ OptionalListOk(a.business_emails, MaxBusinessEmails)

EnrichPersonInput(a) ==
    [linkedin_urls |-> StripList(Default(a.linkedin_urls, PNone)),
     business_emails |-> StripList(Default(a.business_emails, PNone)),
     enrich_realtime |-> Default(a.enrich_realtime, PBool(FALSE))]

GetLinkedInPostsInputOk(a) ==
    /\ IntGeOk(a.page, 1)
    /\ IntRangeOk(a.limit, 1, MaxPostsLimit)
    /\ IntGeOk(a.max_reactors, 0)
    /\ IntGeOk(a.max_comments, 0)

GetLinkedInPostsInput(a) ==
    [person_linkedin_url |-> StripStr(Default(a.person_linkedin_url, PNone)),
     company_name |-> StripStr(Default(a.company_name, PNone)),
     company_domain |-> StripStr(Default(a.company_domain, PNone)),
     company_id |-> Default(a.company_id, PNone),
     company_linkedin_url |-> StripStr(Default(a.company_linkedin_url, PNone)),
     fields |-> StripStr(Default(a.fields, PNone)),
     page |-> Default(a.page, PInt(1)),
     limit |-> Default(a.limit, PInt(DefaultPostsLimit)),
     post_types |-> StripStr(Default(a.post_types, PNone)),
     max_reactors |-> Default(a.max_reactors, PInt(DefaultMaxReactors)),
     max_comments |-> Default(a.max_comments, PInt(DefaultMaxComments))]

\* A validated PostProcessing instance: an object, truthy whatever it holds.
PostProcessing(p) ==
    [t |-> "model",
     v |-> << <<<<"s","t","r","i","c","t","_","t","i","t","l","e","_","a","n","d","_","c","o","m","p","a","n","y","_","m","a","t","c","h">>,
                Default(p.strict_title_and_company_match, PBool(FALSE))>>,
              <<<<"e","x","c","l","u","d","e","_","p","r","o","f","i","l","e","s">>, Default(p.exclude_profiles, PNone)>>,
              <<<<"e","x","c","l","u","d","e","_","n","a","m","e","s">>, Default(p.exclude_names, PNone)>> >>]

\* PostProcessing(...).model_dump(exclude_none=True)
PostProcessingDump(m) == PDict(SelectSeq(m.v, LAMBDA kv : kv[2].t # "none"))

\* PersonSearchFilter(...).model_dump(exclude_none=True)
PersonSearchFilterDump(f) ==
    PDict(SelectSeq(<< <<<<"f","i","l","t","e","r","_","t","y","p","e">>, f.filter_type>>, <<<<"t","y","p","e">>, f.type>>,
                       <<<<"v","a","l","u","e">>, f.value>> >>,
                    LAMBDA kv : kv[2].t # "none"))

\* A schema that enforced the documented rules (page excludes limit and
\* preview; limit above 25 needs background_job): not what the code has.
SearchPeopleInputOkExclusive(a) ==
    /\ IntGeOk(a.page, 1)
    /\ IntRangeOk(a.limit, 1, MaxPeopleLimit)
    /\ ~(a.page.t # "absent" /\ a.limit.t # "absent")
    /\ ~(a.page.t # "absent" /\ a.preview.t # "absent" /\ a.preview.v)
    /\ (a.limit.t # "absent" /\ a.limit.v > 25) =>
         (a.background_job.t # "absent" /\ a.background_job.v)

SearchPeopleInputOk(a) ==
    /\ IntGeOk(a.page, 1)
    /\ IntRangeOk(a.limit, 1, MaxPeopleLimit)

SearchPeopleInput(a) ==
    [filters |-> Default(a.filters, PNone),
     linkedin_sales_navigator_search_url |->
        StripStr(Default(a.linkedin_sales_navigator_search_url, PNone)),
     page |-> Default(a.page, PNone),
     limit |-> Default(a.limit, PNone),
     preview |-> Default(a.preview, PBool(FALSE)),
     background_job |-> Default(a.background_job, PBool(FALSE)),
     job_id |-> StripStr(Default(a.job_id, PNone)),
     post_processing |->
        IF a.post_processing.t = "absent" THEN PNone
        ELSE PostProcessing(a.post_processing.v)]

\* Whether the framework's validation of the tool's arguments passes.  The
\* ping tool takes no arguments; a direct call of build_request is not
\* validated ("all inputs are pre-validated by callers").
Validates(c) ==
    CASE c.tool = "crustdata_enrich_company" -> EnrichCompanyInputOk(c.a)
      [] c.tool = "crustdata_screen_companies" -> ScreenCompaniesInputOk(c.a)
      [] c.tool = "crustdata_search_companies" -> SearchCompaniesInputOk(c.a)
      [] c.tool = "crustdata_enrich_person" -> EnrichPersonInputOk(c.a)
      [] c.tool = "crustdata_get_linkedin_posts" -> GetLinkedInPostsInputOk(c.a)
      [] c.tool = "crustdata_search_people" -> SearchPeopleInputOk(c.a)
      [] OTHER -> TRUE

\* The validated model the handler receives as `params`.
Validated(c) ==
    CASE c.tool = "crustdata_enrich_company" -> EnrichCompanyInput(c.a)
      [] c.tool = "crustdata_screen_companies" -> ScreenCompaniesInput(c.a)
      [] c.tool = "crustdata_search_companies" -> SearchCompaniesInput(c.a)
      [] c.tool = "crustdata_enrich_person" -> EnrichPersonInput(c.a)
      [] c.tool = "crustdata_get_linkedin_posts" -> GetLinkedInPostsInput(c.a)
      [] c.tool = "crustdata_search_people" -> SearchPeopleInput(c.a)
      [] OTHER -> c.a

\* ---------------------------------------------------------- tool handlers

\* `if cond: d[k] = v` on a dict's items.
SetIf(items, cond, k, v) == IF cond THEN DictSet(items, k, v) ELSE items

\* ",".join(list of str)
CommaJoin(l) == PStr(Join(<<",">>, [i \in 1..Len(l.v) |-> l.v[i].v]))

\* Each handler yields the arguments of its build_request call; the dict it
\* builds (query_params or body) is given by value here and becomes a heap
\* object when the handler runs.
Request(method, path, params, json_body) ==
    [method |-> method, path |-> path, params |-> params, json_body |-> json_body]

\* The ping request with its query parameter under another name.
crustdata_ping_domain ==
    Request(<<"G","E","T">>, <<"/","s","c","r","e","e","n","e","r","/","c","o","m","p","a","n","y">>,
            PDict(<< <<<<"d","o","m","a","i","n">>, PStr(<<"e","x","a","m","p","l","e",".","c","o","m">>)>> >>), PNone)

crustdata_ping ==
    Request(<<"G","E","T">>, <<"/","s","c","r","e","e","n","e","r","/","c","o","m","p","a","n","y">>,
            PDict(<< <<<<"c","o","m","p","a","n","y","_","d","o","m","a","i","n">>, PStr(<<"e","x","a","m","p","l","e",".","c","o","m">>)>> >>), PNone)

crustdata_enrich_company(p) ==
    LET q0 == << <<<<"c","o","m","p","a","n","y","_","d","o","m","a","i","n">>, CommaJoin(p.company_domains)>> >>
        q1 == IF Truthy(p.fields) THEN DictSet(q0, <<"f","i","e","l","d","s">>, CommaJoin(p.fields)) ELSE q0
        q2 == SetIf(q1, Truthy(p.enrich_realtime), <<"e","n","r","i","c","h","_","r","e","a","l","t","i","m","e">>, PStr(<<"T","r","u","e">>))
    IN Request(<<"G","E","T">>, <<"/","s","c","r","e","e","n","e","r","/","c","o","m","p","a","n","y">>, PDict(q2), PNone)

crustdata_screen_companies(p) ==
    Request(<<"P","O","S","T">>, <<"/","s","c","r","e","e","n","e","r","/","s","c","r","e","e","n","/">>, PNone,
      PDict(<< <<<<"f","i","l","t","e","r","s">>,
                 PDict(<< <<<<"o","p">>, p.op>>,
                          <<<<"c","o","n","d","i","t","i","o","n","s">>,
                            PList([i \in 1..Len(p.conditions.v) |->
                                     ScreeningConditionDump(p.conditions.v[i])])>> >>)>>,
               <<<<"h","i","d","d","e","n","_","c","o","l","u","m","n","s">>, PList(<<>>)>>,
               <<<<"o","f","f","s","e","t">>, p.offset>>,
               <<<<"c","o","u","n","t">>, p.count>>,
               <<<<"s","o","r","t","s">>, IF Truthy(p.sorts) THEN p.sorts ELSE PList(<<>>)>> >>))

crustdata_search_companies(p) ==
    Request(<<"P","O","S","T">>, <<"/","s","c","r","e","e","n","e","r","/","c","o","m","p","a","n","y","/","s","e","a","r","c","h">>, PNone,
      PDict(<< <<<<"f","i","l","t","e","r","s">>,
                 PList([i \in 1..Len(p.filters.v) |->
                          CompanySearchFilterDump(p.filters.v[i])])>>,
               <<<<"p","a","g","e">>, p.page>> >>))

crustdata_enrich_person(p) ==
    LET q1 == IF Truthy(p.linkedin_urls)
              THEN DictSet(<<>>, <<"l","i","n","k","e","d","i","n","_","p","r","o","f","i","l","e","_","u","r","l">>, CommaJoin(p.linkedin_urls))
              ELSE <<>>
        q2 == IF Truthy(p.business_emails)
              THEN DictSet(q1, <<"b","u","s","i","n","e","s","s","_","e","m","a","i","l">>, CommaJoin(p.business_emails))
              ELSE q1
        q3 == SetIf(q2, Truthy(p.enrich_realtime), <<"e","n","r","i","c","h","_","r","e","a","l","t","i","m","e">>, PStr(<<"t","r","u","e">>))
    IN Request(<<"G","E","T">>, <<"/","s","c","r","e","e","n","e","r","/","p","e","r","s","o","n","/","e","n","r","i","c","h">>, PDict(q3), PNone)

crustdata_get_linkedin_posts(p) ==
    LET q1 == SetIf(<<>>, Truthy(p.person_linkedin_url),
                    <<"p","e","r","s","o","n","_","l","i","n","k","e","d","i","n","_","u","r","l">>, p.person_linkedin_url)
        q2 == SetIf(q1, Truthy(p.company_name), <<"c","o","m","p","a","n","y","_","n","a","m","e">>, p.company_name)
        q3 == SetIf(q2, Truthy(p.company_domain), <<"c","o","m","p","a","n","y","_","d","o","m","a","i","n">>, p.company_domain)
        q4 == SetIf(q3, Truthy(p.company_id), <<"c","o","m","p","a","n","y","_","i","d">>, p.company_id)
        q5 == SetIf(q4, Truthy(p.company_linkedin_url),
                    <<"c","o","m","p","a","n","y","_","l","i","n","k","e","d","i","n","_","u","r","l">>, p.company_linkedin_url)
        q6 == SetIf(q5, Truthy(p.fields), <<"f","i","e","l","d","s">>, p.fields)
        q7 == DictSet(DictSet(q6, <<"p","a","g","e">>, p.page), <<"l","i","m","i","t">>, p.limit)
        q8 == SetIf(q7, Truthy(p.post_types), <<"p","o","s","t","_","t","y","p","e","s">>, p.post_types)
        q9 == DictSet(DictSet(q8, <<"m","a","x","_","r","e","a","c","t","o","r","s">>, p.max_reactors),
                      <<"m","a","x","_","c","o","m","m","e","n","t","s">>, p.max_comments)
    IN Request(<<"G","E","T">>, <<"/","s","c","r","e","e","n","e","r","/","l","i","n","k","e","d","i","n","_","p","o","s","t","s">>, PDict(q9), PNone)

crustdata_search_people(p) ==
    LET b1 == IF Truthy(p.filters)
              THEN DictSet(<<>>, <<"f","i","l","t","e","r","s">>,
                           PList([i \in 1..Len(p.filters.v) |->
                                    PersonSearchFilterDump(p.filters.v[i])]))
              ELSE <<>>
        b2 == SetIf(b1, Truthy(p.linkedin_sales_navigator_search_url),
                    <<"l","i","n","k","e","d","i","n","_","s","a","l","e","s","_","n","a","v","i","g","a","t","o","r","_","s","e","a","r","c","h","_","u","r","l">>,
                    p.linkedin_sales_navigator_search_url)
        b3 == SetIf(b2, p.page.t # "none", <<"p","a","g","e">>, p.page)
        b4 == SetIf(b3, p.limit.t # "none", <<"l","i","m","i","t">>, p.limit)
        b5 == SetIf(b4, Truthy(p.preview), <<"p","r","e","v","i","e","w">>, p.preview)
        b6 == SetIf(b5, Truthy(p.background_job), <<"b","a","c","k","g","r","o","u","n","d","_","j","o","b">>, p.background_job)
        b7 == SetIf(b6, Truthy(p.job_id), <<"j","o","b","_","i","d">>, p.job_id)
        b8 == IF Truthy(p.post_processing)
              THEN DictSet(b7, <<"p","o","s","t","_","p","r","o","c","e","s","s","i","n","g">>, PostProcessingDump(p.post_processing))
              ELSE b7
    IN Request(<<"P","O","S","T">>, <<"/","s","c","r","e","e","n","e","r","/","p","e","r","s","o","n","/","s","e","a","r","c","h">>, PNone, PDict(b8))

\* The build_request call the invocation makes, given the validated model.
HandlerRequest(tool, p) ==
    CASE tool = "crustdata_ping" -> crustdata_ping
      [] tool = "crustdata_enrich_company" -> crustdata_enrich_company(p)
      [] tool = "crustdata_screen_companies" -> crustdata_screen_companies(p)
      [] tool = "crustdata_search_companies" -> crustdata_search_companies(p)
      [] tool = "crustdata_enrich_person" -> crustdata_enrich_person(p)
      [] tool = "crustdata_get_linkedin_posts" -> crustdata_get_linkedin_posts(p)
      [] tool = "crustdata_search_people" -> crustdata_search_people(p)
      [] tool = "build_request" -> Request(p.method, p.path, p.params, p.json_body)

\* What the invocation returns: format_output(), which the ping tool puts
\* under a banner.
ReturnText(tool, text) ==
    IF tool = "crustdata_ping"
    THEN Join(<<NL>>, << <<"C","r","u","s","t","d","a","t","a"," ","M","C","P"," ","D","e","m","o"," ","i","s"," ","r","u","n","n","i","n","g",".">>, <<>>, text >>)
    ELSE text

\* ------------------------------------------------------------------ inputs

\* A list of n copies of s.
Rep(n, s) == PList([i \in 1..n |-> PStr(s)])

Call(tool, a) == [tool |-> tool, a |-> a]

EnrichCompanyBase ==
    [company_domains |-> Rep(1, <<"a",".","i","o">>), fields |-> Absent, enrich_realtime |-> Absent]

EnrichCompanyCalls ==
    {Call("crustdata_enrich_company", a) : a \in
        {[EnrichCompanyBase EXCEPT !.company_domains = d] :
            d \in {Absent, Rep(0, <<"a",".","i","o">>), Rep(1, <<"a",".","i","o">>),
                   PList(<<PStr(<<" ","b",".","c","o"," ">>), PStr(<<"a",".","i","o">>)>>),
                   Rep(MaxCompanyDomains, <<"a",".","i","o">>),
                   Rep(MaxCompanyDomains + 1, <<"a",".","i","o">>)}}
        \cup {[EnrichCompanyBase EXCEPT !.fields = f] :
                f \in {PList(<<>>), PList(<<PStr(<<"j","o","b","_","o","p","e","n","i","n","g","s">>), PStr(<<"n","e","w","s">>)>>)}}
        \cup {[EnrichCompanyBase EXCEPT !.enrich_realtime = PBool(TRUE)]}}

Cond1 ==
    [column |-> PStr(<<"h","e","a","d","c","o","u","n","t">>), type |-> PStr(<<"=",">">>), value |-> PInt(50),
     allow_null |-> Absent]

Cond2 ==
    [column |-> PStr(<<"h","q">>), type |-> PStr(<<"(",".",")">>), value |-> PStr(<<"U","S">>),
     allow_null |-> PBool(TRUE)]

ScreenCompaniesBase ==
    [op |-> Absent, conditions |-> PList(<<Cond1>>), offset |-> Absent,
     count |-> Absent, sorts |-> Absent]

ScreenCompaniesCalls ==
    {Call("crustdata_screen_companies", a) : a \in
        {[ScreenCompaniesBase EXCEPT !.conditions = c] :
            c \in {Absent, PList(<<>>), PList(<<Cond1>>), PList(<<Cond1, Cond2>>)}}
        \cup {[ScreenCompaniesBase EXCEPT !.offset = PInt(n)] : n \in {-1, 0, 5}}
        \cup {[ScreenCompaniesBase EXCEPT !.count = PInt(n)] :
                n \in {0, 1, MaxScreenCount, MaxScreenCount + 1}}
        \cup {[ScreenCompaniesBase EXCEPT !.op = PStr(<<" ","o","r"," ">>)]}
        \cup {[ScreenCompaniesBase EXCEPT !.sorts = s] :
                s \in {PList(<<>>),
                       PList(<<PDict(<< <<<<"c","o","l","u","m","n">>, PStr(<<"h","e","a","d","c","o","u","n","t">>)>>,
                                        <<<<"a","s","c">>, PBool(FALSE)>> >>)>>)}}}

Filter1 ==
    [filter_type |-> PStr(<<"R","E","G","I","O","N">>), type |-> PStr(<<"i","n">>),
     value |-> PList(<<PStr(<<"E","u","r","o","p","e">>)>>), sub_filter |-> Absent]

Filter2 ==
    [filter_type |-> PStr(<<"A","N","N","U","A","L","_","R","E","V","E","N","U","E">>), type |-> PStr(<<"b","e","t","w","e","e","n">>),
     value |-> PDict(<< <<<<"m","i","n">>, PInt(1)>>, <<<<"m","a","x">>, PInt(500)>> >>),
     sub_filter |-> PStr(<<"U","S","D">>)]

SearchCompaniesBase == [filters |-> PList(<<Filter1>>), page |-> Absent]

SearchCompaniesCalls ==
    {Call("crustdata_search_companies", a) : a \in
        {[SearchCompaniesBase EXCEPT !.filters = f] :
            f \in {Absent, PList(<<>>), PList(<<Filter1>>), PList(<<Filter1, Filter2>>)}}
        \cup {[SearchCompaniesBase EXCEPT !.page = PInt(n)] : n \in {0, 1, 3}}}

EnrichPersonBase ==
    [linkedin_urls |-> Absent, business_emails |-> Absent, enrich_realtime |-> Absent]

EnrichPersonCalls ==
    {Call("crustdata_enrich_person", a) : a \in
        {EnrichPersonBase}
        \cup {[EnrichPersonBase EXCEPT !.linkedin_urls = l] :
                l \in {PList(<<>>), Rep(1, <<"h","t","t","p","s",":","/","/","l","i","n","k","e","d","i","n",".","c","o","m","/","i","n","/","x">>),
                       Rep(MaxLinkedinUrls, <<"i","n","/","x">>), Rep(MaxLinkedinUrls + 1, <<"i","n","/","x">>)}}
        \cup {[EnrichPersonBase EXCEPT !.business_emails = l] :
                l \in {PList(<<>>), Rep(1, <<"a","@","b",".","c","o">>),
                       Rep(MaxBusinessEmails, <<"a","@","b",".","c","o">>),
                       Rep(MaxBusinessEmails + 1, <<"a","@","b",".","c","o">>)}}
        \cup {[EnrichPersonBase EXCEPT !.linkedin_urls = Rep(1, <<"i","n","/","x">>),
                                       !.business_emails = Rep(2, <<"a","@","b",".","c","o">>)]}
        \cup {[EnrichPersonBase EXCEPT !.linkedin_urls = PList(<<>>),
                                       !.business_emails = PList(<<>>),
                                       !.enrich_realtime = PBool(TRUE)]}}

GetLinkedInPostsBase ==
    [person_linkedin_url |-> Absent, company_name |-> Absent,
     company_domain |-> Absent, company_id |-> Absent,
     company_linkedin_url |-> Absent, fields |-> Absent, page |-> Absent,
     limit |-> Absent, post_types |-> Absent, max_reactors |-> Absent,
     max_comments |-> Absent]

GetLinkedInPostsCalls ==
    {Call("crustdata_get_linkedin_posts", a) : a \in
        {GetLinkedInPostsBase}
        \cup {[GetLinkedInPostsBase EXCEPT !.person_linkedin_url = PStr(s)] :
                s \in {<<"i","n","/","x">>, <<" "," ">>, <<>>}}
        \cup {[GetLinkedInPostsBase EXCEPT !.company_name = PStr(<<"A","c","m","e"," ","I","n","c">>)]}
        \cup {[GetLinkedInPostsBase EXCEPT !.company_domain = PStr(<<"a",".","i","o">>)]}
        \cup {[GetLinkedInPostsBase EXCEPT !.company_id = PInt(n)] : n \in {0, 7}}
        \cup {[GetLinkedInPostsBase EXCEPT !.company_linkedin_url = PStr(<<"c","o","m","p","a","n","y","/","a">>)]}
        \cup {[GetLinkedInPostsBase EXCEPT !.fields = PStr(<<"t","e","x","t",",","d","a","t","e">>)]}
        \cup {[GetLinkedInPostsBase EXCEPT !.post_types = PStr(<<"r","e","p","o","s","t">>)]}
        \cup {[GetLinkedInPostsBase EXCEPT !.page = PInt(n)] : n \in {0, 1, 2}}
        \cup {[GetLinkedInPostsBase EXCEPT !.limit = PInt(n)] :
                n \in {0, 1, MaxPostsLimit, MaxPostsLimit + 1}}
        \cup {[GetLinkedInPostsBase EXCEPT !.max_reactors = PInt(n)] : n \in {-1, 0}}
        \cup {[GetLinkedInPostsBase EXCEPT !.max_comments = PInt(n)] : n \in {-1, 0}}}

PersonFilter1 ==
    [filter_type |-> PStr(<<"C","U","R","R","E","N","T","_","T","I","T","L","E">>), type |-> PStr(<<"i","n">>),
     value |-> PList(<<PStr(<<"C","T","O">>)>>)]

SearchPeopleBase ==
    [filters |-> Absent, linkedin_sales_navigator_search_url |-> Absent,
     page |-> Absent, limit |-> Absent, preview |-> Absent,
     background_job |-> Absent, job_id |-> Absent, post_processing |-> Absent]

PostProcessingDefault ==
    [strict_title_and_company_match |-> Absent, exclude_profiles |-> Absent,
     exclude_names |-> Absent]

SearchPeopleCalls ==
    {Call("crustdata_search_people", a) : a \in
        {SearchPeopleBase}
        \cup {[SearchPeopleBase EXCEPT !.filters = f] :
                f \in {PList(<<>>), PList(<<PersonFilter1>>)}}
        \cup {[SearchPeopleBase EXCEPT
                 !.linkedin_sales_navigator_search_url = PStr(<<"h","t","t","p","s",":","/","/","l",".","c","o","/","s","?","q","=","1">>)]}
        \cup {[SearchPeopleBase EXCEPT !.page = PInt(n)] : n \in {0, 1}}
        \cup {[SearchPeopleBase EXCEPT !.limit = PInt(n)] :
                n \in {0, 1, 26, MaxPeopleLimit, MaxPeopleLimit + 1}}
        \cup {[SearchPeopleBase EXCEPT !.preview = PBool(TRUE)]}
        \cup {[SearchPeopleBase EXCEPT !.background_job = PBool(TRUE)]}
        \cup {[SearchPeopleBase EXCEPT !.job_id = PStr(<<"j","-","1">>)]}
        \cup {[SearchPeopleBase EXCEPT !.post_processing =
                 [t |-> "given", v |-> p]] :
                p \in {PostProcessingDefault,
                       [PostProcessingDefault EXCEPT
                          !.exclude_names = PList(<<PStr(<<"B","o">>)>>)]}}
        \cup {[SearchPeopleBase EXCEPT !.page = PInt(2), !.limit = PInt(5)]}
        \cup {[SearchPeopleBase EXCEPT !.page = PInt(1), !.preview = PBool(TRUE)]}
        \cup {[SearchPeopleBase EXCEPT !.page = PInt(2), !.limit = PInt(5),
                                       !.filters = PList(<<>>)]}
        \cup {[SearchPeopleBase EXCEPT !.limit = PInt(26),
                                       !.background_job = PBool(FALSE)]}}

\* Direct calls of build_request, with the parameter shapes the handlers
\* never produce: params missing, empty, or holding None values; a body that
\* is present but empty.
ParamsShapes ==
    {PNone, PDict(<<>>),
     PDict(<< <<<<"k">>, PNone>> >>),
     PDict(<< <<<<"k">>, PNone>>, <<<<"m">>, PNone>> >>),
     PDict(<< <<<<"k">>, PStr(<<"v">>)>>, <<<<"m">>, PNone>>, <<<<"n">>, PInt(5)>> >>),
     PDict(<< <<<<"q">>, PStr(<<"a"," ","b","&","c","=","d">>)>>, <<<<"e">>, PStr(<<>>)>> >>)}

BodyShapes ==
    {PNone, PDict(<<>>), PList(<<>>),
     PDict(<< <<<<"a">>, PInt(1)>> >>),
     PList(<<PStr(<<"x">>), PNone>>)}

BuildRequestCalls ==
    {Call("build_request", Request(<<"G","E","T">>, <<"/","x">>, p, PNone)) : p \in ParamsShapes}
    \cup {Call("build_request", Request(<<"P","O","S","T">>, <<"/","x">>, PNone, b)) : b \in BodyShapes}
    \cup {Call("build_request",
               Request(<<"P","U","T">>, <<"/","x">>, PDict(<< <<<<"k">>, PNone>>, <<<<"n">>, PInt(5)>> >>),
                       PDict(<<>>)))}

PingCalls == {Call("crustdata_ping", PNone)}

\* Every call the sequential specification draws from.
AllCalls ==
    PingCalls \cup EnrichCompanyCalls \cup ScreenCompaniesCalls
    \cup SearchCompaniesCalls \cup EnrichPersonCalls \cup GetLinkedInPostsCalls
    \cup SearchPeopleCalls \cup BuildRequestCalls

\* The calls the interleaved specification draws from: one per tool.
ConcCalls ==
    PingCalls
    \cup {Call("crustdata_enrich_company", EnrichCompanyBase),
          Call("crustdata_screen_companies", ScreenCompaniesBase),
          Call("crustdata_search_companies", SearchCompaniesBase),
          Call("crustdata_enrich_person", EnrichPersonBase),
          Call("crustdata_get_linkedin_posts", GetLinkedInPostsBase),
          Call("crustdata_search_people", SearchPeopleBase)}

\* ----------------------------------------------------------- state machine

VARIABLES
    pc,      \* per slot: "idle", "rejected", "validated", "mapped", "built", "done"
    call,    \* per slot: the tool and the raw arguments of the invocation
    model,   \* per slot: the validated input the handler received
    args,    \* per slot: the arguments of its build_request call (references)
    result,  \* per slot: the DryRunResult build_request returned
    output,  \* per slot: the text the invocation returns
    heap,    \* the objects passed by reference
    prev     \* an earlier invocation, kept for comparison: its call and text

vars == <<pc, call, model, args, result, output, heap, prev>>

Slots == 1..MaxInv

NoCall == Call("none", PNone)
NoArgs == Request(<<>>, <<>>, PNone, PNone)
NoResult == [method |-> <<>>, url |-> <<>>, headers |-> PNone, body |-> PNone]
NoPrev == [call |-> NoCall, output |-> <<>>]

Init ==
    /\ pc = [i \in Slots |-> "idle"]
    /\ call = [i \in Slots |-> NoCall]
    /\ model = [i \in Slots |-> PNone]
    /\ args = [i \in Slots |-> NoArgs]
    /\ result = [i \in Slots |-> NoResult]
    /\ output = [i \in Slots |-> <<>>]
    /\ heap = EmptyHeap
    /\ prev = NoPrev

\* The framework receives a tool call and validates its arguments against
\* the handler's schema: a violation is reported to the caller and the
\* handler does not run.
Invoke(i, calls) ==
    /\ pc[i] = "idle"
    /\ \E c \in calls :
         /\ call' = [call EXCEPT ![i] = c]
         /\ IF Validates(c)
            THEN /\ pc' = [pc EXCEPT ![i] = "validated"]
                 /\ model' = [model EXCEPT ![i] = Validated(c)]
            ELSE /\ pc' = [pc EXCEPT ![i] = "rejected"]
                 /\ UNCHANGED model
    /\ UNCHANGED <<args, result, output, heap, prev>>

\* The handler builds its query_params / body dict: a new object.
Map(i) ==
    /\ pc[i] = "validated"
    /\ LET r == HandlerRequest(call[i].tool, model[i])
           p == IF r.params.t = "none" THEN [heap |-> heap, ref |-> PNone]
                ELSE NewObject(heap, i, r.params)
           b == IF r.json_body.t = "none" THEN [heap |-> p.heap, ref |-> PNone]
                ELSE NewObject(p.heap, i, r.json_body)
       IN /\ heap' = b.heap
          /\ args' = [args EXCEPT ![i] = Request(r.method, r.path, p.ref, b.ref)]
    /\ pc' = [pc EXCEPT ![i] = "mapped"]
    /\ UNCHANGED <<call, model, result, output, prev>>

\* result = build_request(...)
Build(i) ==
    /\ pc[i] = "mapped"
    /\ LET r == build_request(heap, i, args[i].method, args[i].path,
                              args[i].params, args[i].json_body)
       IN /\ heap' = r.heap
          /\ result' = [result EXCEPT ![i] = r.result]
    /\ pc' = [pc EXCEPT ![i] = "built"]
    /\ UNCHANGED <<call, model, args, output, prev>>

\* return result.format_output()
Format(i) ==
    /\ pc[i] = "built"
    /\ output' = [output EXCEPT ![i] =
                    ReturnText(call[i].tool, format_output(heap, result[i]))]
    /\ pc' = [pc EXCEPT ![i] = "done"]
    /\ UNCHANGED <<call, model, args, result, heap, prev>>

\* The objects slot i refers to.
RefsOf(i) ==
    {v.id : v \in {x \in {args[i].params, args[i].json_body,
                          result[i].headers, result[i].body} : x.t = "ref"}}

\* The caller has taken the text (or the validation error): the invocation's
\* locals go out of scope and its objects are collected.
Return(i) ==
    /\ pc[i] \in {"done", "rejected"}
    /\ heap' = [n \in ObjIds |-> IF n \in RefsOf(i) \ {0} THEN Free ELSE heap[n]]
    /\ pc' = [pc EXCEPT ![i] = "idle"]
    /\ call' = [call EXCEPT ![i] = NoCall]
    /\ model' = [model EXCEPT ![i] = PNone]
    /\ args' = [args EXCEPT ![i] = NoArgs]
    /\ result' = [result EXCEPT ![i] = NoResult]
    /\ output' = [output EXCEPT ![i] = <<>>]
    /\ UNCHANGED prev

\* The observer notes a finished invocation, to compare a later one with.
Remember(i) ==
    /\ pc[i] = "done"
    /\ prev # [call |-> call[i], output |-> output[i]]
    /\ prev' = [call |-> call[i], output |-> output[i]]
    /\ UNCHANGED <<pc, call, model, args, result, output, heap>>

\* One invocation at a time, drawn from every call of the model.
Next ==
    \/ Invoke(1, AllCalls)
    \/ Map(1)
    \/ Build(1)
    \/ Format(1)
    \/ Return(1)
    \/ Remember(1)

Spec == Init /\ [][Next]_vars

\* Invocations interleaved at the handler's steps.  The handlers are
\* coroutines without an await, so the event loop runs each to its end; the
\* interleaving here is finer than any the event loop produces.
NextConc ==
    \E i \in Slots :
        \/ Invoke(i, ConcCalls)
        \/ Map(i)
        \/ Build(i)
        \/ Format(i)
        \/ Return(i)

SpecConc == Init /\ [][NextConc]_vars

\* The caller of build_request keeps the dict it passed as json_body and
\* changes it afterwards; the descriptor holds the same object.
CallerMutatesBody(i) ==
    /\ pc[i] \in {"built", "done"}
    /\ call[i].tool = "build_request"
    /\ args[i].json_body.t = "ref"
    /\ LET n == args[i].json_body.id
       IN /\ heap[n].t = "dict"
          /\ ~DictHas(heap[n].v, <<"i","n","j","e","c","t","e","d">>)
          /\ heap' = [heap EXCEPT ![n] =
                        PDict(DictSet(heap[n].v, <<"i","n","j","e","c","t","e","d">>, PBool(TRUE)))]
    /\ UNCHANGED <<pc, call, model, args, result, output, prev>>

\* The caller assigns to a field of the DryRunResult it got: the dataclass
\* is not frozen.
CallerAssignsField(i) ==
    /\ pc[i] \in {"built", "done"}
    /\ call[i].tool = "build_request"
    /\ result[i].method # <<"D","E","L","E","T","E">>
    /\ result' = [result EXCEPT ![i].method = <<"D","E","L","E","T","E">>]
    /\ UNCHANGED <<pc, call, model, args, output, heap, prev>>

\* Direct users of build_request, who may go on to use the objects they hold.
NextAlias ==
    \E i \in Slots :
        \/ Invoke(i, BuildRequestCalls)
        \/ Map(i)
        \/ Build(i)
        \/ Format(i)
        \/ Return(i)
        \/ CallerMutatesBody(i)
        \/ CallerAssignsField(i)

SpecAlias == Init /\ [][NextAlias]_vars

\* ------------------------------------------------------------- properties

StartsWith(s, p) == Len(p) <= Len(s) /\ SubSeq(s, 1, Len(p)) = p

EndsWith(s, p) == Len(p) <= Len(s) /\ SubSeq(s, Len(s) - Len(p) + 1, Len(s)) = p

Contains(s, p) ==
    \E k \in 0..(Len(s) - Len(p)) : SubSeq(s, k + 1, k + Len(p)) = p

\* The keys of the query string of a URL: what precedes "=" in each
\* "&"-separated entry after the first "?".
QueryKeys(url) ==
    LET parts == Split(url, "?")
    IN IF Len(parts) = 1 THEN {}
       ELSE LET entries == Split(SubSeq(url, Len(parts[1]) + 2, Len(url)), "&")
            IN {Split(entries[k], "=")[1] : k \in 1..Len(entries)}

\* The keys of a params argument that hold a value other than None.
GivenKeys(p) ==
    IF p.t = "dict" THEN {p.v[k][1] : k \in {j \in 1..Len(p.v) : p.v[j][2].t # "none"}}
    ELSE {}

\* The lines of the text format_output produced for slot i (the ping tool
\* puts two lines before them).
Rendered(i) ==
    LET ls == Split(output[i], NL)
    IN IF call[i].tool = "crustdata_ping" THEN SubSeq(ls, 3, Len(ls)) ELSE ls

HasBuilt(i) == pc[i] \in {"built", "done"}

\* C1: the URL build_request returns has a query entry for key k exactly when
\* params holds k with a value other than None; when no such key exists
\* (params missing, empty or all None) the URL is the base URL followed by
\* the path, without a "?".
C1_QueryHoldsGivenParams ==
    \A i \in Slots :
        HasBuilt(i) =>
            LET given == GivenKeys(Deref(heap, args[i].params))
            IN /\ QueryKeys(result[i].url) = given
               /\ given = {} =>
                    /\ result[i].url = API_BASE_URL \o args[i].path
                    /\ "?" \notin {result[i].url[k] : k \in 1..Len(result[i].url)}

\* A request built from params that mix None and other values.
C1_Witness ==
    \E i \in Slots :
        /\ HasBuilt(i)
        /\ LET p == Deref(heap, args[i].params)
           IN /\ p.t = "dict"
              /\ \E k \in 1..Len(p.v) : p.v[k][2].t = "none"
              /\ GivenKeys(p) # {}

\* C2: every descriptor has Accept and Authorization with their fixed
\* values; it has Content-Type exactly when json_body is not None, and then
\* its body is the json_body that was passed.
C2_Headers ==
    \A i \in Slots :
        HasBuilt(i) =>
            LET hs == Deref(heap, result[i].headers).v
            IN /\ DictHas(hs, <<"A","c","c","e","p","t">>)
               /\ DictGet(hs, <<"A","c","c","e","p","t">>) = PStr(<<"a","p","p","l","i","c","a","t","i","o","n","/","j","s","o","n">>)
               /\ DictHas(hs, <<"A","u","t","h","o","r","i","z","a","t","i","o","n">>)
               /\ DictGet(hs, <<"A","u","t","h","o","r","i","z","a","t","i","o","n">>) = PStr(<<"T","o","k","e","n"," ","$","t","o","k","e","n">>)
               /\ DictHas(hs, <<"C","o","n","t","e","n","t","-","T","y","p","e">>) <=> args[i].json_body.t # "none"
               /\ args[i].json_body.t # "none" => result[i].body = args[i].json_body
               /\ args[i].json_body.t = "none" => result[i].body = PNone

\* A descriptor whose body is present and empty.
C2_Witness ==
    \E i \in Slots :
        /\ HasBuilt(i)
        /\ args[i].json_body.t = "ref"
        /\ Deref(heap, args[i].json_body) = PDict(<<>>)
        /\ DictHas(Deref(heap, result[i].headers).v, <<"C","o","n","t","e","n","t","-","T","y","p","e">>)

IsPingDone(i) == pc[i] = "done" /\ call[i].tool = "crustdata_ping"

UrlLineEndsWith(i, suffix) ==
    \E k \in 1..Len(Rendered(i)) :
        /\ StartsWith(Rendered(i)[k], <<" "," ","U","R","L",":">>)
        /\ EndsWith(Rendered(i)[k], suffix)

\* C3 as stated: the output for the ping request contains "Method: GET" and
\* a URL ending in "?company_domain=example.com".
C3_AsStated ==
    \A i \in Slots :
        IsPingDone(i) =>
            /\ Contains(output[i], <<"M","e","t","h","o","d",":"," ","G","E","T">>)
            /\ UrlLineEndsWith(i, <<"?","c","o","m","p","a","n","y","_","d","o","m","a","i","n","=","e","x","a","m","p","l","e",".","c","o","m">>)

\* C3 amended: the label is padded ("Method:" and two spaces, then GET); the
\* URL ends in "?company_domain=example.com".
C3_PingOutput ==
    \A i \in Slots :
        IsPingDone(i) =>
            /\ Contains(output[i], <<"M","e","t","h","o","d",":"," "," ","G","E","T">>)
            /\ EndsWith(result[i].url, <<"?","c","o","m","p","a","n","y","_","d","o","m","a","i","n","=","e","x","a","m","p","l","e",".","c","o","m">>)
            /\ UrlLineEndsWith(i, <<"?","c","o","m","p","a","n","y","_","d","o","m","a","i","n","=","e","x","a","m","p","l","e",".","c","o","m">>)

C3_Witness == \E i \in Slots : IsPingDone(i)

\* A body that is a non-empty structure.
NonEmptyBody(b) == b.t \in {"dict", "list"} /\ Len(b.v) > 0

\* C4: without a body, or with an empty one, the text ends after the Headers
\* line; with a non-empty body it ends with a "Body:" line followed by the
\* lines of the body's JSON, indented.
C4_BodySection ==
    \A i \in Slots :
        pc[i] = "done" =>
            LET b == Deref(heap, result[i].body)
                ls == Rendered(i)
                js == Split(JsonDumps(b), NL)
            IN IF NonEmptyBody(b)
               THEN /\ Len(ls) = 7 + Len(js)
                    /\ StartsWith(ls[6], <<" "," ","H","e","a","d","e","r","s",":"," ">>)
                    /\ ls[7] = <<" "," ","B","o","d","y",":">>
                    /\ \A k \in 1..Len(js) : ls[7 + k] = <<" "," "," "," ">> \o js[k]
               ELSE /\ Len(ls) = 6
                    /\ StartsWith(ls[6], <<" "," ","H","e","a","d","e","r","s",":"," ">>)

\* Rendered texts of a body that is present and empty.
C4_Witness ==
    \E i \in Slots :
        /\ pc[i] = "done"
        /\ result[i].body.t = "ref"
        /\ ~NonEmptyBody(Deref(heap, result[i].body))

HasBodyLine(i) == \E k \in 1..Len(Rendered(i)) : Rendered(i)[k] = <<" "," ","B","o","d","y",":">>

\* C5: whenever the descriptor has a body (json_body is not None, the
\* condition under which Content-Type is set), the rendered text has a Body
\* section; so a text whose Headers line shows Content-Type shows a body.
C5_BodyShownWhenPresent ==
    \A i \in Slots :
        pc[i] = "done" =>
            /\ result[i].body.t # "none" => HasBodyLine(i)
            /\ Contains(Rendered(i)[6], <<"C","o","n","t","e","n","t","-","T","y","p","e">>) => HasBodyLine(i)

\* What the claim lists as outside the schema, per tool, on the raw
\* arguments; a required list that is not given at all counts as empty.
Given(v) == v.t # "absent"

TooLong(v, n) == Given(v) /\ Len(v.v) > n

EmptyOrMissing(v) == ~Given(v) \/ Len(v.v) = 0

Below(v, n) == Given(v) /\ v.v < n

Above(v, n) == Given(v) /\ v.v > n

OutsideSchema(c) ==
    LET a == c.a
    IN CASE c.tool = "crustdata_enrich_company" ->
              EmptyOrMissing(a.company_domains) \/ TooLong(a.company_domains, 25)
         [] c.tool = "crustdata_enrich_person" ->
              TooLong(a.linkedin_urls, 25) \/ TooLong(a.business_emails, 25)
         [] c.tool = "crustdata_screen_companies" ->
              \/ EmptyOrMissing(a.conditions)
              \/ Below(a.offset, 0)
              \/ Below(a.count, 1) \/ Above(a.count, 1000)
         [] c.tool = "crustdata_search_companies" ->
              EmptyOrMissing(a.filters) \/ Below(a.page, 1)
         [] c.tool = "crustdata_get_linkedin_posts" ->
              \/ Below(a.page, 1)
              \/ Below(a.limit, 1) \/ Above(a.limit, 100)
              \/ Below(a.max_reactors, 0) \/ Below(a.max_comments, 0)
         [] c.tool = "crustdata_search_people" ->
              \/ Below(a.page, 1)
              \/ Below(a.limit, 1) \/ Above(a.limit, 10000)
         [] OTHER -> FALSE

\* C6: an invocation is rejected exactly when its arguments are outside the
\* schema; a rejected invocation builds no request and returns no text; an
\* accepted one runs its handler and ends with the rendered text.
C6_Validation ==
    \A i \in Slots :
        pc[i] # "idle" =>
            /\ pc[i] = "rejected" <=> OutsideSchema(call[i])
            /\ pc[i] = "rejected" =>
                 output[i] = <<>> /\ result[i] = NoResult /\ args[i] = NoArgs
            /\ pc[i] \in {"validated", "mapped", "built"} => ~OutsideSchema(call[i])
            /\ pc[i] = "done" =>
                 StartsWith(Rendered(i),
                            << <<"D","r","y"," ","r","u","n"," ","m","o","d","e"," ","-"," ","n","o"," ","a","c","t","u","a","l"," ","A","P","I"," ","c","a","l","l"," ","w","a","s"," ","m","a","d","e",".">>,
                               <<>>,
                               <<"R","e","q","u","e","s","t"," ","t","h","a","t"," ","w","o","u","l","d"," ","b","e"," ","s","e","n","t",":">> >>)

\* A call one past a bound has been rejected.
C6_Witness ==
    \E i \in Slots :
        /\ pc[i] = "rejected"
        /\ call[i].tool = "crustdata_screen_companies"
        /\ Above(call[i].a.count, 1000)

\* C7: every request of crustdata_enrich_person carries linkedin_profile_url
\* or business_email (an input with neither produces no request).
C7_EnrichPersonNeedsOne ==
    \A i \in Slots :
        (HasBuilt(i) /\ call[i].tool = "crustdata_enrich_person") =>
            QueryKeys(result[i].url)
                \cap {<<"l","i","n","k","e","d","i","n","_","p","r","o","f","i","l","e","_","u","r","l">>, <<"b","u","s","i","n","e","s","s","_","e","m","a","i","l">>} # {}

\* The method and path the claim gives for each tool.
FixedMethod(tool) ==
    CASE tool \in {"crustdata_enrich_company", "crustdata_enrich_person",
                   "crustdata_get_linkedin_posts"} -> <<"G","E","T">>
      [] tool \in {"crustdata_screen_companies", "crustdata_search_companies",
                   "crustdata_search_people"} -> <<"P","O","S","T">>

FixedPath(tool) ==
    CASE tool = "crustdata_enrich_company" -> <<"/","s","c","r","e","e","n","e","r","/","c","o","m","p","a","n","y">>
      [] tool = "crustdata_screen_companies" -> <<"/","s","c","r","e","e","n","e","r","/","s","c","r","e","e","n","/">>
      [] tool = "crustdata_search_companies" -> <<"/","s","c","r","e","e","n","e","r","/","c","o","m","p","a","n","y","/","s","e","a","r","c","h">>
      [] tool = "crustdata_enrich_person" -> <<"/","s","c","r","e","e","n","e","r","/","p","e","r","s","o","n","/","e","n","r","i","c","h">>
      [] tool = "crustdata_get_linkedin_posts" -> <<"/","s","c","r","e","e","n","e","r","/","l","i","n","k","e","d","i","n","_","p","o","s","t","s">>
      [] tool = "crustdata_search_people" -> <<"/","s","c","r","e","e","n","e","r","/","p","e","r","s","o","n","/","s","e","a","r","c","h">>

IsTool(tool) == tool \notin {"none", "crustdata_ping", "build_request"}

\* C8: an invocation returns the text an earlier invocation with the same
\* input returned, whatever ran in between; the text names the tool's method
\* and a URL that starts with the base URL and the tool's path.
C8_Deterministic ==
    \A i \in Slots :
        pc[i] = "done" =>
            /\ prev.call = call[i] => output[i] = prev.output
            /\ IsTool(call[i].tool) =>
                 /\ Rendered(i)[4] = <<" "," ","M","e","t","h","o","d",":"," "," ">> \o FixedMethod(call[i].tool)
                 /\ StartsWith(Rendered(i)[5],
                               <<" "," ","U","R","L",":"," "," "," "," "," ">> \o API_BASE_URL
                               \o FixedPath(call[i].tool))

\* A tool invocation finished again with the input of a remembered one.
C8_Witness ==
    \E i \in Slots :
        /\ pc[i] = "done"
        /\ IsTool(call[i].tool)
        /\ prev.call = call[i]
        /\ prev.output = output[i]

\* The descriptor of slot i as its holder reads it.
Descriptor(i) ==
    [method |-> result[i].method, url |-> result[i].url,
     headers |-> Deref(heap, result[i].headers),
     body |-> Deref(heap, result[i].body)]

\* C9: once built, a descriptor does not change while its invocation holds
\* it, whatever is done with its fields or with the values passed in.
C9_Immutable ==
    [][\A i \in Slots :
         (HasBuilt(i) /\ HasBuilt(i)') => Descriptor(i)' = Descriptor(i)]_vars

\* The text call c returns when it is the only invocation there has been:
\* its steps, one after the other, from the empty heap.
RunAlone(c) ==
    LET r == HandlerRequest(c.tool, Validated(c))
        p == IF r.params.t = "none" THEN [heap |-> EmptyHeap, ref |-> PNone]
             ELSE NewObject(EmptyHeap, 1, r.params)
        b == IF r.json_body.t = "none" THEN [heap |-> p.heap, ref |-> PNone]
             ELSE NewObject(p.heap, 1, r.json_body)
        q == build_request(b.heap, 1, r.method, r.path, p.ref, b.ref)
    IN ReturnText(c.tool, format_output(q.heap, q.result))

\* C10: under any interleaving, a finished invocation holds the text it
\* returns when run alone; no object of one invocation is referred to by
\* another; and the params and body an invocation built hold what it put there.
C10_NoSharedState ==
    /\ \A i \in Slots : pc[i] = "done" => output[i] = RunAlone(call[i])
    /\ \A i, j \in Slots : i # j => RefsOf(i) \cap RefsOf(j) = {}
    /\ \A i \in Slots :
         pc[i] \in {"mapped", "built", "done"} =>
            LET r == HandlerRequest(call[i].tool, model[i])
            IN /\ Deref(heap, args[i].params) = r.params
               /\ Deref(heap, args[i].json_body) = r.json_body

\* Two invocations in flight at once, one with a body and one without, the
\* latter finished after the former built its request.
C10_Witness ==
    \E i, j \in Slots :
        /\ i # j
        /\ pc[i] = "done" /\ args[i].json_body.t = "none"
        /\ HasBuilt(j) /\ args[j].json_body.t # "none"


\* The body key of each field of SearchPeopleInput: the field's own name.
SearchPeopleKey ==
    [filters |-> <<"f","i","l","t","e","r","s">>,
     linkedin_sales_navigator_search_url |-> <<"l","i","n","k","e","d","i","n","_","s","a","l","e","s","_","n","a","v","i","g","a","t","o","r","_","s","e","a","r","c","h","_","u","r","l">>,
     page |-> <<"p","a","g","e">>, limit |-> <<"l","i","m","i","t">>, preview |-> <<"p","r","e","v","i","e","w">>,
     background_job |-> <<"b","a","c","k","g","r","o","u","n","d","_","j","o","b">>, job_id |-> <<"j","o","b","_","i","d">>,
     post_processing |-> <<"p","o","s","t","_","p","r","o","c","e","s","s","i","n","g">>]

\* The documented rules of crustdata_search_people, on the raw arguments:
\* page excludes limit, preview excludes page, limit above 25 needs
\* background_job.
BreaksRule(a) ==
    \/ Given(a.page) /\ Given(a.limit)
    \/ Given(a.page) /\ Given(a.preview) /\ a.preview.v
    \/ /\ Given(a.limit) /\ a.limit.v > 25
       /\ ~(Given(a.background_job) /\ a.background_job.v)

IsRuleBreakingSearch(i) ==
    /\ call[i].tool = "crustdata_search_people"
    /\ ~OutsideSchema(call[i])
    /\ BreaksRule(call[i].a)

\* The rendered Body section has an entry  "k": ...
RenderedHasKey(i, k) ==
    \E n \in 8..Len(Rendered(i)) :
        Contains(Rendered(i)[n], <<"\"">> \o k \o <<"\"", ":", " ">>)

\* The body of slot i holds key k, in the descriptor and in the text.
BodyHasKey(i, k) ==
    /\ DictHas(Deref(heap, result[i].body).v, k)
    /\ RenderedHasKey(i, k)

BodyLacksKey(i, k) ==
    /\ ~DictHas(Deref(heap, result[i].body).v, k)
    /\ ~RenderedHasKey(i, k)

PassedOn(m, f) ==
    IF f \in {"page", "limit"} THEN m[f].t # "none" ELSE Truthy(m[f])

QueryEntries(url) ==
    LET parts == Split(url, "?")
    IN IF Len(parts) = 1 THEN {}
       ELSE LET entries == Split(SubSeq(url, Len(parts[1]) + 2, Len(url)), "&")
            IN {entries[k] : k \in 1..Len(entries)}

\* The query entry that carries value v under name k.
QueryEntry(k, v) == k \o <<"=">> \o QuotePlus(StrOf(v))

\* The optional fields of GetLinkedInPostsInput, each with its own name.
PostsOptionalKey ==
    [person_linkedin_url |-> <<"p","e","r","s","o","n","_","l","i","n","k","e","d","i","n","_","u","r","l">>,
     company_name |-> <<"c","o","m","p","a","n","y","_","n","a","m","e">>, company_domain |-> <<"c","o","m","p","a","n","y","_","d","o","m","a","i","n">>,
     company_id |-> <<"c","o","m","p","a","n","y","_","i","d">>,
     company_linkedin_url |-> <<"c","o","m","p","a","n","y","_","l","i","n","k","e","d","i","n","_","u","r","l">>,
     fields |-> <<"f","i","e","l","d","s">>, post_types |-> <<"p","o","s","t","_","t","y","p","e","s">>]

\* The fields that are always sent, with the defaults the claim gives.
PostsDefault ==
    [page |-> PInt(1), limit |-> PInt(10), max_reactors |-> PInt(10),
     max_comments |-> PInt(10)]

PostsAlwaysKey ==
    [page |-> <<"p","a","g","e">>, limit |-> <<"l","i","m","i","t">>, max_reactors |-> <<"m","a","x","_","r","e","a","c","t","o","r","s">>,
     max_comments |-> <<"m","a","x","_","c","o","m","m","e","n","t","s">>]

IsPostsBuilt(i) ==
    HasBuilt(i) /\ call[i].tool = "crustdata_get_linkedin_posts"

\* page, limit, max_reactors and max_comments are in the URL, with the
\* supplied value or else the default.
PostsAlwaysSent(i) ==
    \A f \in DOMAIN PostsAlwaysKey :
        QueryEntry(PostsAlwaysKey[f],
                   IF Given(call[i].a[f]) THEN call[i].a[f] ELSE PostsDefault[f])
            \in QueryEntries(result[i].url)

\* C12: for every valid input of crustdata_get_linkedin_posts, each optional
\* field that was given is in the URL under its own name with the value
\* given (company_id = 0 included), and page, limit, max_reactors and
\* max_comments are always there, with 1, 10, 10, 10 when not given.
C12_EveryFieldMapped ==
    \A i \in Slots :
        IsPostsBuilt(i) =>
            /\ \A f \in DOMAIN PostsOptionalKey :
                  Given(call[i].a[f]) =>
                     QueryEntry(PostsOptionalKey[f], model[i][f])
                         \in QueryEntries(result[i].url)
            /\ PostsAlwaysSent(i)

====
